---- MODULE Spec2Model ----
(***************************************************************************)
(* World inspector of bevy-inspector-egui (src/world_inspector/mod.rs):    *)
(*   - WorldUIContext::new      the per-pass index entity -> (Location,    *)
(*                              component types) built from the archetypes *)
(*   - WorldUIContext::ui /     the recursive walk of the parent/children  *)
(*     entity_ui                hierarchy and the per-component regions    *)
(*   - WorldInspectorParams     the ignore set                             *)
(*   - short_name               generic-aware shortening of type names     *)
(*                                                                         *)
(* Strings are sequences of one-character strings, so that find, rfind,    *)
(* slicing and rsplit are computed position by position as the code does.  *)
(* A Rust panic (unwrap on None, slice with begin > end, index of a        *)
(* missing key, failed assert_eq!) is an explicit outcome of the model.    *)
(***************************************************************************)
EXTENDS Integers, Sequences, FiniteSets, TLC

VARIABLES
    archetypes,     \* world.archetypes(): per archetype its types and its entities
    children,       \* world: the value of each entity's Children component
    params,         \* WorldInspectorParams.ignore_components
    pc,             \* where the render pass is
    components,     \* WorldUIContext.components, the index built by new
    scan,           \* new: how many (archetype, slot) pairs the loops have done
    roots,          \* ui: the root entities the loop of line 80 has yet to visit
    stack,          \* entity_ui: the activations that are in their child loop
    out,            \* the calls made on the egui Ui, in order
    type_name,      \* short_name: the argument of the call under check
    shortened       \* short_name: NotCalled, or the outcome of the call

worldVars == <<archetypes, children>>
passVars == <<params, pc, components, scan, roots, stack, out>>
nameVars == <<type_name, shortened>>
vars == <<archetypes, children, params, pc, components, scan, roots, stack, out,
          type_name, shortened>>

----------------------------------------------------------------------------
(* Bounds *)

\* Longest arbitrary string over Alphabet given to short_name.
MaxLen == 5
\* Deepest nesting of single-argument generics, path<path<path>>.
MaxNest == 3
\* Entity ids are 1..MaxEntity.
MaxEntity == 3
\* Most (archetype, slot) pairs of a world, over all its archetypes.
MaxSlots == 3
\* Most entries of all the Children lists of a world together.
MaxChildren == 2

Letters == {"a", "b"}
Alphabet == Letters \cup {":", "<", ">", ","}

----------------------------------------------------------------------------
(* short_name, lines 158-180 *)

\* str::find(ch): 1-based position of the first ch, 0 for None.
Find(s, ch) ==
    IF \E i \in 1..Len(s) : s[i] = ch
    THEN CHOOSE i \in 1..Len(s) : s[i] = ch /\ \A j \in 1..(i - 1) : s[j] # ch
    ELSE 0

\* str::rfind(ch): 1-based position of the last ch, 0 for None.
RFind(s, ch) ==
    IF \E i \in 1..Len(s) : s[i] = ch
    THEN CHOOSE i \in 1..Len(s) : s[i] = ch /\ \A j \in (i + 1)..Len(s) : s[j] # ch
    ELSE 0

\* str::rfind("::"): 1-based position where the last "::" starts, 0 for None.
RFindSep(s) ==
    LET At(i) == s[i] = ":" /\ s[i + 1] = ":"
    IN  IF \E i \in 1..(Len(s) - 1) : At(i)
        THEN CHOOSE i \in 1..(Len(s) - 1) :
                 At(i) /\ \A j \in (i + 1)..(Len(s) - 1) : ~At(j)
        ELSE 0

\* The text after the first "::" instead of the last.
AfterFirstSeparator(s) ==
    IF \E i \in 1..(Len(s) - 1) : s[i] = ":" /\ s[i + 1] = ":"
    THEN SubSeq(s,
                (CHOOSE i \in 1..(Len(s) - 1) :
                     /\ s[i] = ":" /\ s[i + 1] = ":"
                     /\ \A j \in 1..(i - 1) : ~(s[j] = ":" /\ s[j + 1] = ":")) + 2,
                Len(s))
    ELSE s

\* &s[i + 2..] after the last "::", the whole of s when there is none:
\* type_name.rsplit("::").next() (line 161) and the match of lines 170-173.
LastSegment(s) ==
    IF RFindSep(s) = 0 THEN s ELSE SubSeq(s, RFindSep(s) + 2, Len(s))

Returned(s) == [panic |-> FALSE, value |-> s]
Panicked == [panic |-> TRUE, value |-> <<>>]

RECURSIVE short_name(_)
short_name(name) ==
    LET angle_open == Find(name, "<")
        angle_close == RFind(name, ">")
    IN  IF angle_open = 0
        THEN Returned(LastSegment(name))
        ELSE IF angle_close = 0
        THEN Panicked                           \* rfind('>').unwrap() on None
        ELSE IF angle_close < angle_open
        THEN Panicked                           \* &name[open + 1..close], begin > end
        ELSE LET before_generics == LastSegment(SubSeq(name, 1, angle_open - 1))
                 after == SubSeq(name, angle_close + 1, Len(name))
                 in_between ==
                     short_name(SubSeq(name, angle_open + 1, angle_close - 1))
             IN  IF in_between.panic
                 THEN Panicked
                 ELSE Returned(before_generics \o <<"<">> \o in_between.value
                               \o <<">">> \o after)

----------------------------------------------------------------------------
(* The type names given to short_name *)

RECURSIVE Strings(_)
Strings(n) ==
    IF n = 0 THEN {<<>>}
    ELSE Strings(n - 1)
         \cup {Append(s, c) : s \in {t \in Strings(n - 1) : Len(t) = n - 1},
                              c \in Alphabet}

\* The paths that the generated names are built of, each as the list of its
\* segments; the text of a path is seg::seg::seg.
Paths ==
    {<<<<"a">>>>, <<<<"b", "a">>>>, <<<<"a">>, <<"b">>>>, <<<<"b">>, <<"a">>, <<"a", "b">>>>}

RECURSIVE PathText(_)
PathText(segs) ==
    IF Len(segs) = 1 THEN segs[1]
    ELSE PathText(SubSeq(segs, 1, Len(segs) - 1)) \o <<":", ":">> \o segs[Len(segs)]

\* A properly nested single-argument generic as the list of its paths,
\* outermost first: <<p1, p2, p3>> stands for p1<p2<p3>>.
RECURSIVE Nestings(_)
Nestings(n) ==
    IF n = 0 THEN {}
    ELSE IF n = 1 THEN {<<p>> : p \in Paths}
    ELSE Nestings(n - 1)
         \cup {<<p>> \o t : p \in Paths,
                            t \in {u \in Nestings(n - 1) : Len(u) = n - 1}}

RECURSIVE NestingText(_)
NestingText(t) ==
    IF Len(t) = 1 THEN PathText(t[1])
    ELSE PathText(t[1]) \o <<"<">> \o NestingText(Tail(t)) \o <<">">>

NestedNames == {NestingText(t) : t \in Nestings(MaxNest)}

\* A generic with two top-level arguments, path<path,path>.
TwoArgText(p, a1, a2) ==
    PathText(p) \o <<"<">> \o PathText(a1) \o <<",">> \o PathText(a2) \o <<">">>

TwoArgNames ==
    {TwoArgText(p, a1, a2) : p, a1, a2 \in Paths}

\* A generic whose two top-level arguments are generics themselves,
\* x<x<x>,x<x>>, the shape of the interior that line 168 slices.
SiblingText(p, a, x, b, y) ==
    <<p, "<", a, "<", x, ">", ",", b, "<", y, ">", ">">>

SiblingNames ==
    {SiblingText("a", a, x, b, y) : a, x, b, y \in Letters}

TypeNames ==
    Strings(MaxLen) \cup NestedNames \cup TwoArgNames \cup SiblingNames

----------------------------------------------------------------------------
(* The world: archetypes, component types, the hierarchy components *)

Entity == 1..MaxEntity

\* The TypeIds that Default puts in the ignore set, lines 141-149.
DefaultIgnored ==
    {"Name", "Children", "Parent", "PreviousParent", "MainPass", "Draw",
     "RenderPipelines"}

\* TypeInfo::type_name of the component types that worlds are made of.
type_name_of(type_id) ==
    CASE type_id = "Transform" -> <<"b", ":", ":", "t", ":", ":", "T">>
      [] type_id = "Custom"    -> <<"g", ":", ":", "H", "<", "g", ":", ":", "M", ">">>
      [] type_id = "Name"      -> <<"b", ":", ":", "N">>
      [] type_id = "Children"  -> <<"b", ":", ":", "C">>
      [] type_id = "Parent"    -> <<"b", ":", ":", "P">>
      [] OTHER                 -> <<"b", ":", ":", "X">>

\* archetype.types() of the archetypes of a world, in world.archetypes() order:
\* no component; a root with children; a leaf child; a child with children.
ArchetypeTypes ==
    << <<>>,
       <<"Children", "Transform">>,
       <<"Parent", "Custom", "Name">>,
       <<"Parent", "Children", "Transform", "Custom">> >>

\* The types an inspector is registered for: InspectableRegistry::generate
\* returns whether it could display the component.
Registered == {"Transform", "Name"}

generate(type_id) == type_id \in Registered

Max(S) == CHOOSE x \in S : \A y \in S : y <= x
Min2(a, b) == IF a <= b THEN a ELSE b
Range(f) == {f[i] : i \in DOMAIN f}

\* Entity ids are opaque, so the slots of a world are listed up to a renaming of
\* the entities: the first entity met is 1, the next new one 2, ...  A world
\* that lists an entity twice never gets past new, which reads no Children
\* list: its lists are left empty.
RECURSIVE SlotLists(_)
SlotLists(n) ==
    IF n = 0 THEN {<<>>}
    ELSE UNION {{Append(s, e) :
                    e \in 1..Min2(MaxEntity, Max(Range(s) \cup {0}) + 1)} :
                s \in SlotLists(n - 1)}

RECURSIVE EntityLists(_)
EntityLists(n) ==
    IF n = 0 THEN {<<>>}
    ELSE {Append(s, e) : s \in EntityLists(n - 1), e \in Entity}

\* The ways to cut a list of n elements in k + 1 consecutive pieces.
Cuts(k, n) == {c \in [1..k -> 0..n] : \A i \in 1..(k - 1) : c[i] <= c[i + 1]}

Piece(list, cut, i) ==
    SubSeq(list,
           (IF i = 1 THEN 0 ELSE cut[i - 1]) + 1,
           IF i = Len(cut) + 1 THEN Len(list) ELSE cut[i])

RECURSIVE SortedSeq(_)
SortedSeq(S) ==
    IF S = {} THEN <<>>
    ELSE LET m == CHOOSE x \in S : \A y \in S : x <= y
         IN  <<m>> \o SortedSeq(S \ {m})

\* world.get::<T>(entity) is Ok: the entity is in an archetype that has T.
HasComponent(entity, type_id) ==
    \E g \in DOMAIN archetypes :
        /\ entity \in Range(archetypes[g].entities)
        /\ type_id \in Range(archetypes[g].types)

Alive == UNION {Range(archetypes[g].entities) : g \in DOMAIN archetypes}

\* The lists of n slots and of m Children entries, for every n and m.
SlotListsOf == [n \in 0..MaxSlots |-> SlotLists(n)]
EntityListsOf == [m \in 0..MaxChildren |-> EntityLists(m)]

InitWorld ==
    \E n \in 0..MaxSlots :
      \E slots \in SlotListsOf[n], cut \in Cuts(Len(ArchetypeTypes) - 1, n) :
        /\ archetypes =
               [g \in DOMAIN ArchetypeTypes |->
                   [types |-> ArchetypeTypes[g], entities |-> Piece(slots, cut, g)]]
        /\ LET holders ==
                   SortedSeq({slots[k] : k \in
                       {j \in 1..n : \E g \in DOMAIN ArchetypeTypes :
                           /\ "Children" \in Range(ArchetypeTypes[g])
                           /\ j > (IF g = 1 THEN 0 ELSE cut[g - 1])
                           /\ j <= (IF g = Len(ArchetypeTypes) THEN n ELSE cut[g])}})
           IN  \E m \in 0..(IF holders = <<>> \/ Cardinality(Range(slots)) < n
                             THEN 0 ELSE MaxChildren) :
                 \E kids \in EntityListsOf[m], owner \in Cuts(Len(holders) - 1, m) :
                   children =
                       [e \in Entity |->
                           IF e \in Range(holders)
                           THEN Piece(kids, owner,
                                      CHOOSE i \in DOMAIN holders : holders[i] = e)
                           ELSE <<>>]

----------------------------------------------------------------------------
(* WorldInspectorParams, lines 128-156 *)

Default == DefaultIgnored

\* A lookup in the built-in set instead of the configured one.
should_ignore_builtin(type_id) == type_id \in Default

should_ignore_component(type_id) == type_id \in params

\* The types the embedding application may add with ignore_component::<T>().
UserIgnorable == {"Transform"}

----------------------------------------------------------------------------
(* WorldUIContext::new, lines 31-61 *)

\* The (archetype_index, entity_index, entity) triples in the order the two
\* enumerate() loops of lines 33-34 produce them, with archetype.types().
RECURSIVE SlotsFrom(_)
SlotsFrom(g) ==
    IF g > Len(archetypes) THEN <<>>
    ELSE [k \in 1..Len(archetypes[g].entities) |->
             [archetype |-> g - 1, index |-> k - 1,
              entity |-> archetypes[g].entities[k],
              types |-> archetypes[g].types]]
         \o SlotsFrom(g + 1)

Slots == SlotsFrom(1)

\* An entry that starts with the archetype's types and is then extended
\* with them once more.
NewEntryPrefilled(location, types) == [location |-> location, types |-> types]

\* or_insert_with(|| (location, Vec::new())), line 42.
NewEntry(location, types) == [location |-> location, types |-> <<>>]

\* Only the first of the two assert_eq!: the slot index goes unchecked.
ArchetypeAsserted(location, stored) == location.archetype = stored.archetype

\* The two assert_eq! of lines 44-45.
LocationAsserted(location, stored) ==
    /\ location.archetype = stored.archetype
    /\ location.index = stored.index

\* One pass of the inner loop body, lines 35-47: the index after it, or the
\* panic of a failed assert_eq!.
ScanOne(index, slot) ==
    LET location == [archetype |-> slot.archetype, index |-> slot.index]
        entity_components ==
            IF slot.entity \in DOMAIN index
            THEN index[slot.entity]
            ELSE NewEntry(location, slot.types)
    IN  IF LocationAsserted(location, entity_components.location)
        THEN [panic |-> FALSE,
              index |-> (slot.entity :>
                            [entity_components EXCEPT !.types = @ \o slot.types])
                        @@ index]
        ELSE [panic |-> TRUE, index |-> index]

New ==
    /\ pc = "idle"
    /\ pc' = "new"
    /\ components' = <<>>
    /\ scan' = 0
    /\ UNCHANGED <<archetypes, children, params, roots, stack, out, type_name,
                   shortened>>

ScanSlot ==
    /\ pc = "new"
    /\ scan < Len(Slots)
    /\ LET done == ScanOne(components, Slots[scan + 1])
       IN  IF done.panic
           THEN \* the unwinding drops the partly built map
                pc' = "aborted" /\ components' = <<>> /\ scan' = scan
           ELSE pc' = pc /\ components' = done.index /\ scan' = scan + 1
    /\ UNCHANGED <<archetypes, children, params, roots, stack, out, type_name,
                   shortened>>

NewReturn ==
    /\ pc = "new"
    /\ scan = Len(Slots)
    /\ pc' = "built"
    /\ UNCHANGED <<archetypes, children, params, components, scan, roots, stack,
                   out, type_name, shortened>>

----------------------------------------------------------------------------
(* WorldUIContext::ui and entity_ui, lines 63-125 *)

\* A chain of nested entity_ui calls longer than the number of entities repeats
\* an entity, so it never ends: the run ends with the stack exhausted.
StackLimit == MaxEntity + 1

\* One call on the egui Ui. text is the text it shows (for a component region
\* the shortened type name, a string of characters); parent is the position
\* in out of the collapsing region whose closure made the call, 0 for the Ui
\* that ui() was given.
Event(ev, entity, type_id, text, location, parent) ==
    [ev |-> ev, entity |-> entity, type |-> type_id, text |-> text,
     location |-> location, parent |-> parent]

Label(text, parent) == Event("label", 0, "", text, <<>>, parent)

\* entity_name, lines 68-73: the Name component, or "Entity {id}".
entity_name(entity) == IF HasComponent(entity, "Name") THEN "Name" ELSE "Entity"

\* world.query_filtered::<Entity, Without<Parent>>(), line 78.
RECURSIVE RootsFrom(_)
RootsFrom(g) ==
    IF g > Len(archetypes) THEN <<>>
    ELSE (IF "Parent" \in Range(archetypes[g].types)
          THEN <<>>
          ELSE archetypes[g].entities)
         \o RootsFrom(g + 1)

root_entities == RootsFrom(1)

\* A Children list walked from its end.
ChildOrderReversed(list) == [k \in 1..Len(list) |-> list[Len(list) + 1 - k]]

\* The order of the loop of line 118 over a Children list.
ChildOrder(list) == list

\* The test of line 107 without its negation.
FallbackShownOnSuccess(could_display) == could_display

\* Line 107: whether the fallback label follows the dispatcher's answer.
FallbackShown(could_display) == ~could_display

\* The loop of lines 89-111 over components_of(entity), from the k-th type on:
\* the calls it adds to log, or the panic of short_name.
RECURSIVE ComponentsUi(_, _, _, _)
ComponentsUi(entry, k, region, log) ==
    IF k > Len(entry.types) THEN [panic |-> FALSE, log |-> log]
    ELSE LET type_id == entry.types[k]
             short == short_name(type_name_of(type_id))
             at == Len(log) + 1
             could_display == generate(type_id)
         IN  IF should_ignore_component(type_id)
             THEN ComponentsUi(entry, k + 1, region, log)
             ELSE IF short.panic
             THEN [panic |-> TRUE, log |-> log]
             ELSE ComponentsUi(entry, k + 1, region,
                      log
                      \o <<Event("collapsing", 0, type_id, short.value, <<>>,
                                 region),
                           Event("generate", 0, type_id,
                                 IF could_display THEN "displayed" ELSE "",
                                 <<entry.location.archetype, entry.location.index>>,
                                 at)>>
                      \o (IF FallbackShown(could_display)
                          THEN <<Label(
                                   "Inspectable has not been defined for this component",
                                   at)>>
                          ELSE <<>>))

\* entity_ui(entity) called with `callers` the activations already open.
EntityUi(entity, callers) ==
    IF Len(callers) >= StackLimit
    THEN pc' = "overflow" /\ stack' = callers /\ out' = out
    ELSE
      LET region == Len(out) + 1
          parent == IF callers = <<>> THEN 0 ELSE callers[Len(callers)].region
          opened ==
              out \o <<Event("collapsing", entity, "", entity_name(entity), <<>>,
                             parent),
                       Label("Components", region)>>
      IN  IF entity \notin DOMAIN components
          THEN \* self.components[&entity], line 64
               pc' = "panicked" /\ stack' = callers /\ out' = opened
          ELSE
            LET listed == ComponentsUi(components[entity], 1, region, opened)
                shown == listed.log
                            \o <<Event("separator", 0, "", "", <<>>, region)>>
            IN  IF listed.panic
                THEN pc' = "panicked" /\ stack' = callers /\ out' = listed.log
                ELSE IF HasComponent(entity, "Children")
                THEN /\ pc' = pc
                     /\ out' = Append(shown, Label("Children", region))
                     /\ stack' = Append(callers,
                                    [entity |-> entity, region |-> region,
                                     next |-> 1])
                ELSE /\ pc' = pc
                     /\ out' = Append(shown, Label("No children", region))
                     /\ stack' = callers

Ui ==
    /\ pc = "built"
    /\ pc' = "ui"
    /\ roots' = root_entities
    /\ UNCHANGED <<archetypes, children, params, components, scan, stack, out,
                   type_name, shortened>>

\* The loop of lines 80-82 calls entity_ui for the next root.
UiRoot ==
    /\ pc = "ui"
    /\ stack = <<>>
    /\ roots # <<>>
    /\ roots' = Tail(roots)
    /\ EntityUi(Head(roots), <<>>)
    /\ UNCHANGED <<archetypes, children, params, components, scan, type_name,
                   shortened>>

UiReturn ==
    /\ pc = "ui"
    /\ stack = <<>>
    /\ roots = <<>>
    /\ pc' = "done"
    /\ UNCHANGED <<archetypes, children, params, components, scan, roots, stack,
                   out, type_name, shortened>>

\* The loop of lines 118-120 calls entity_ui for the next child.
ChildUi ==
    /\ pc = "ui"
    /\ stack # <<>>
    /\ LET top == stack[Len(stack)]
           list == ChildOrder(children[top.entity])
       IN  /\ top.next <= Len(list)
           /\ EntityUi(list[top.next],
                       [stack EXCEPT ![Len(stack)].next = top.next + 1])
    /\ UNCHANGED <<archetypes, children, params, components, scan, roots,
                   type_name, shortened>>

\* The loop of lines 118-120 is over: the closure of line 86 returns.
EntityUiReturn ==
    /\ pc = "ui"
    /\ stack # <<>>
    /\ stack[Len(stack)].next > Len(children[stack[Len(stack)].entity])
    /\ stack' = SubSeq(stack, 1, Len(stack) - 1)
    /\ UNCHANGED <<archetypes, children, params, pc, components, scan, roots, out,
                   type_name, shortened>>

\* WorldInspectorParams::ignore_component::<T>(), between render passes.
IgnoreComponent ==
    /\ pc = "idle"
    /\ \E type_id \in UserIgnorable \ params :
           params' = params \cup {type_id}
    /\ UNCHANGED <<archetypes, children, pc, components, scan, roots, stack, out,
                   type_name, shortened>>

----------------------------------------------------------------------------
(* The render pass as a state machine *)

NotCalled == [panic |-> FALSE, value |-> <<"?">>]

Init ==
    /\ InitWorld
    /\ params = Default
    /\ pc = "idle"
    /\ components = <<>>
    /\ scan = 0
    /\ roots = <<>>
    /\ stack = <<>>
    /\ out = <<>>
    /\ type_name = <<>>
    /\ shortened = NotCalled

Next ==
    \/ IgnoreComponent
    \/ New
    \/ ScanSlot
    \/ NewReturn
    \/ Ui
    \/ UiRoot
    \/ ChildUi
    \/ EntityUiReturn
    \/ UiReturn

Spec == Init /\ [][Next]_vars

----------------------------------------------------------------------------
(* The call of short_name as a state machine *)

InitName ==
    /\ type_name \in TypeNames
    /\ shortened = NotCalled
    /\ archetypes = [g \in DOMAIN ArchetypeTypes |->
                        [types |-> ArchetypeTypes[g], entities |-> <<>>]]
    /\ children = [e \in Entity |-> <<>>]
    /\ params = Default
    /\ pc = "idle"
    /\ components = <<>>
    /\ scan = 0
    /\ roots = <<>>
    /\ stack = <<>>
    /\ out = <<>>

ShortNameCall ==
    /\ shortened = NotCalled
    /\ shortened' = short_name(type_name)
    /\ UNCHANGED <<archetypes, children, params, pc, components, scan, roots,
                   stack, out, type_name>>

NextName == ShortNameCall

SpecName == InitName /\ [][NextName]_vars

----------------------------------------------------------------------------
(* The index built by new *)

\* new has returned: the context, and with it the index, exists.
IndexBuilt == pc \in {"built", "ui", "done", "panicked", "overflow"}

\* The sum of the type-list lengths of the archetypes that hold the entity.
RECURSIVE GroupTypeCount(_, _)
GroupTypeCount(entity, g) ==
    IF g > Len(archetypes) THEN 0
    ELSE (IF entity \in Range(archetypes[g].entities)
          THEN Len(archetypes[g].types) ELSE 0)
         + GroupTypeCount(entity, g + 1)

\* C1: once new has built the index, every entity of some archetype has its
\* entry in components (a map: one entry per key) and no other entity has one,
\* and the entry lists as many types as the archetypes holding the entity have.
C1_IndexCoversEveryEntity ==
    IndexBuilt =>
        /\ DOMAIN components = Alive
        /\ \A e \in Alive : Len(components[e].types) = GroupTypeCount(e, 1)

\* An index of three entities, one without any component and one with four.
C1_Witness ==
    /\ pc = "built"
    /\ Cardinality(Alive) = 3
    /\ archetypes[1].entities # <<>>
    /\ archetypes[4].entities # <<>>

SlotLocation(slot) == [archetype |-> slot.archetype, index |-> slot.index]

\* C2: the build goes past an occurrence of an entity only with the Location
\* of that occurrence equal to the one stored for the entity, so no two
\* occurrences with different Locations are ever both accepted; it aborts
\* exactly at an occurrence of an entity seen before at another Location, and
\* then there is no index and nothing is rendered.
C2_MismatchAborts ==
    LET slots == Slots
    IN  /\ pc \notin {"idle", "aborted"} =>
               \A k \in 1..scan :
                   /\ slots[k].entity \in DOMAIN components
                   /\ components[slots[k].entity].location = SlotLocation(slots[k])
        /\ pc = "aborted" =>
               /\ \E k \in 1..scan :
                      /\ slots[k].entity = slots[scan + 1].entity
                      /\ SlotLocation(slots[k]) # SlotLocation(slots[scan + 1])
               /\ components = <<>>
               /\ out = <<>>
        /\ IndexBuilt =>
               \A k, m \in 1..Len(slots) :
                   slots[k].entity = slots[m].entity => k = m

\* The build aborted at the second occurrence of an entity in one archetype.
C2_Witness ==
    /\ pc = "aborted"
    /\ \E k \in 1..scan :
           /\ Slots[k].entity = Slots[scan + 1].entity
           /\ Slots[k].archetype = Slots[scan + 1].archetype

----------------------------------------------------------------------------
(* short_name *)

Called == shortened # NotCalled

Count(s, ch) == Cardinality({i \in 1..Len(s) : s[i] = ch})

Ch(s, i) == IF i \in 1..Len(s) THEN s[i] ELSE "$"

\* s is path<path<...path...>> with nothing after the closing brackets, each
\* path being identifiers joined by "::".
WellNested(s) ==
    LET n == Len(s)
        k == Count(s, "<")
    IN  /\ n > 0
        /\ \A i \in 1..n : s[i] \in Letters \cup {":", "<", ">"}
        /\ Count(s, ">") = k
        /\ \A i \in (n - k + 1)..n : s[i] = ">"
        /\ Ch(s, 1) \in Letters
        /\ Ch(s, n - k) \in Letters
        /\ \A i \in 1..n : s[i] = "<" =>
               Ch(s, i - 1) \in Letters /\ Ch(s, i + 1) \in Letters
        /\ \A i \in 1..n : s[i] = ":" =>
               \/ /\ Ch(s, i + 1) = ":"
                  /\ Ch(s, i - 1) \in Letters
                  /\ Ch(s, i + 2) \in Letters
               \/ /\ Ch(s, i - 1) = ":"
                  /\ Ch(s, i - 2) \in Letters
                  /\ Ch(s, i + 1) \in Letters

\* Position i of s belongs to the last segment of its path, or is a bracket.
KeptAt(s, i) ==
    \/ s[i] \in {"<", ">"}
    \/ /\ s[i] # ":"
       /\ ~\E j \in (i + 1)..(Len(s) - 1) :
              /\ s[j] = ":" /\ s[j + 1] = ":"
              /\ \A m \in i..j : s[m] \notin {"<", ">"}

\* s with the path of every nesting level replaced by its last segment.
RECURSIVE LastSegmentsFrom(_, _)
LastSegmentsFrom(s, i) ==
    IF i > Len(s) THEN <<>>
    ELSE (IF KeptAt(s, i) THEN <<s[i]>> ELSE <<>>) \o LastSegmentsFrom(s, i + 1)

NoSeparator(s) == ~\E i \in 1..(Len(s) - 1) : s[i] = ":" /\ s[i + 1] = ":"

\* C6: short_name of a properly nested single-argument generic is the name
\* with the path of every level replaced by its last segment, the brackets
\* kept; a name without "::" and without angle brackets comes back unchanged.
C6_NestedGenericsShortened ==
    Called =>
        /\ WellNested(type_name) =>
               shortened = Returned(LastSegmentsFrom(type_name, 1))
        /\ (NoSeparator(type_name) /\ Count(type_name, "<") = 0
                /\ Count(type_name, ">") = 0) =>
               shortened = Returned(type_name)

\* A name of three nesting levels, each a path of several segments.
C6_Witness ==
    /\ Called
    /\ WellNested(type_name)
    /\ Count(type_name, "<") = 2
    /\ Count(type_name, ":") >= 6
    /\ shortened.value # type_name

\* C7: for a generic with two top-level arguments path<path,path>, the output
\* keeps both arguments as comma-separated segments (each whole or shortened
\* to its last segment), so it has as many commas as the input.
C7_CommaSegmentsPreserved ==
    (Called /\ type_name \in TwoArgNames) =>
        /\ ~shortened.panic
        /\ Count(shortened.value, ",") = Count(type_name, ",")
        /\ \A p, a1, a2 \in Paths :
               type_name = TwoArgText(p, a1, a2) =>
                   \E s1 \in {PathText(a1), a1[Len(a1)]},
                      s2 \in {PathText(a2), a2[Len(a2)]} :
                       shortened.value =
                           p[Len(p)] \o <<"<">> \o s1 \o <<",">> \o s2 \o <<">">>

\* C9: short_name returns a string for every input string.
C9_ShortNameTotal == Called => ~shortened.panic

----------------------------------------------------------------------------
(* The regions and labels of a render pass *)

Fallback == "Inspectable has not been defined for this component"

\* The positions in out of the entity regions and of the component regions.
IsEntityRegion(i) == out[i].ev = "collapsing" /\ out[i].entity # 0
IsComponentRegion(i) == out[i].ev = "collapsing" /\ out[i].type # ""
EntityRegions == {i \in DOMAIN out : IsEntityRegion(i)}
ComponentRegions == {i \in DOMAIN out : IsComponentRegion(i)}

\* The calls made by the closure of the region at position i.
Inside(i) == {j \in DOMAIN out : out[j].parent = i}

LabelsInside(i, text) ==
    {j \in Inside(i) : out[j].ev = "label" /\ out[j].text = text}

\* The types of the component regions opened in the region at i, in order.
ShownTypes(i) ==
    LET Shown(ev) == ev.ev = "collapsing" /\ ev.type # "" /\ ev.parent = i
        regions == SelectSeq(out, Shown)
    IN  [k \in 1..Len(regions) |-> regions[k].type]

\* The entities of the entity regions opened in the region at i, in order.
ShownEntities(i) ==
    LET Shown(ev) == ev.ev = "collapsing" /\ ev.entity # 0 /\ ev.parent = i
        regions == SelectSeq(out, Shown)
    IN  [k \in 1..Len(regions) |-> regions[k].entity]

\* The component types the world holds for an entity, in archetype order.
RECURSIVE WorldTypes(_, _)
WorldTypes(entity, g) ==
    IF g > Len(archetypes) THEN <<>>
    ELSE (IF entity \in Range(archetypes[g].entities)
          THEN archetypes[g].types ELSE <<>>)
         \o WorldTypes(entity, g + 1)

RECURSIVE Unignored(_)
Unignored(types) ==
    IF types = <<>> THEN <<>>
    ELSE (IF Head(types) \in params THEN <<>> ELSE <<Head(types)>>)
         \o Unignored(Tail(types))

IsPrefix(s, t) == Len(s) <= Len(t) /\ s = SubSeq(t, 1, Len(s))

C4_NoChildrenLabel ==
    \A i \in EntityRegions :
        LET e == out[i].entity
        IN  /\ ~HasComponent(e, "Children") =>
                   Cardinality(LabelsInside(i, "No children")) = 1
            /\ (HasComponent(e, "Children") /\ children[e] # <<>>) =>
                   /\ LabelsInside(i, "No children") = {}
                   /\ Cardinality(LabelsInside(i, "Children")) = 1
                   /\ \A j \in EntityRegions :
                          out[j].parent = i =>
                              \A l \in LabelsInside(i, "Children") : l < j
                   /\ IsPrefix(ShownEntities(i), children[e])
                   /\ pc = "done" => ShownEntities(i) = children[e]

\* C5: in the region of every rendered component the dispatcher is invoked
\* once, and the fallback label is there if and only if the dispatcher
\* reported that it could not display the component, that is, if and only if
\* no inspector is registered for the type.
C5_FallbackIffUndisplayable ==
    /\ \A i \in ComponentRegions :
           LET calls == {j \in Inside(i) : out[j].ev = "generate"}
               fallback == LabelsInside(i, Fallback)
           IN  /\ Cardinality(calls) = 1
               /\ \A j \in calls :
                      /\ out[j].type = out[i].type
                      /\ (out[j].text = "displayed") <=> (out[i].type \in Registered)
                      /\ (fallback # {}) <=> (out[j].text # "displayed")
               /\ Cardinality(fallback) <= 1
    /\ \A j \in DOMAIN out :
           (out[j].ev = "label" /\ out[j].text = Fallback) =>
               /\ out[j].parent \in DOMAIN out
               /\ IsComponentRegion(out[j].parent)

\* A finished pass that showed a component with an inspector and one without.
C5_Witness ==
    /\ pc = "done"
    /\ \E i, j \in ComponentRegions :
           /\ out[i].type \in Registered
           /\ LabelsInside(i, Fallback) = {}
           /\ out[j].type \notin Registered
           /\ LabelsInside(j, Fallback) # {}

\* C10: every entity that entity_ui is called for has an entry in the index.
C10_VisitedEntitiesIndexed ==
    /\ \A i \in EntityRegions : out[i].entity \in DOMAIN components
    /\ pc # "panicked"

----------------------------------------------------------------------------
(* The walk of the hierarchy *)

\* How many times the Children lists name the entity.
ListedCount(entity) ==
    Cardinality({<<e, k>> \in Entity \X (1..MaxChildren) :
                    k <= Len(children[e]) /\ children[e][k] = entity})

RECURSIVE Descendants(_, _)
Descendants(S, n) ==
    IF n = 0 THEN S
    ELSE Descendants(S \cup UNION {Range(children[e]) : e \in S}, n - 1)

\* No entity is below itself in the children relation.
Acyclic ==
    \A e \in Entity : e \notin Descendants(Range(children[e]), MaxEntity)

\* An entity has a Parent exactly when a Children list names it, and it is
\* named once only.
Consistent ==
    /\ Acyclic
    /\ \A e \in Entity :
           /\ HasComponent(e, "Parent") <=> ListedCount(e) >= 1
           /\ ListedCount(e) <= 1

\* The entities of the world in archetype order, without those with a Parent.
RECURSIVE ParentlessFrom(_)
ParentlessFrom(k) ==
    IF k > Len(Slots) THEN <<>>
    ELSE (IF "Parent" \in Range(Slots[k].types) THEN <<>> ELSE <<Slots[k].entity>>)
         \o ParentlessFrom(k + 1)

\* The pre-order of the trees below the entities of a list: each entity, then
\* the pre-order of its Children list, then the rest of the list. With every
\* entity goes the entity whose region its region is opened in (0: none).
RECURSIVE PreOrder(_, _)
PreOrder(list, above) ==
    IF list = <<>> THEN <<>>
    ELSE <<<<Head(list), above>>>>
         \o PreOrder(children[Head(list)], Head(list))
         \o PreOrder(Tail(list), above)

\* The entity regions of out, each with the entity of the region around it.
Visited ==
    LET Shown(ev) == ev.ev = "collapsing" /\ ev.entity # 0
        regions == SelectSeq(out, Shown)
    IN  [k \in 1..Len(regions) |->
            <<regions[k].entity,
              IF regions[k].parent = 0 THEN 0 ELSE out[regions[k].parent].entity>>]

InPass == pc \in {"ui", "done", "panicked", "overflow"}

\* What a pass over a consistent, acyclic hierarchy has done so far: it has
\* not failed, its entity regions are the beginning of the pre-order, each
\* opened in the region of the entity that lists it, after that entity's
\* component regions; when ui returns they are the whole pre-order, with one
\* region for every entity of the world.
WalkSoFar ==
    /\ pc \in {"ui", "done"}
    /\ IsPrefix(Visited, PreOrder(ParentlessFrom(1), 0))
    /\ \A i \in EntityRegions, j \in ComponentRegions :
           out[j].parent = out[i].parent => j < i
    /\ pc = "done" =>
           /\ Visited = PreOrder(ParentlessFrom(1), 0)
           /\ \A e \in Alive :
                  Cardinality({i \in EntityRegions : out[i].entity = e}) = 1
           /\ {out[i].entity : i \in EntityRegions} = Alive

\* What is left of the pass: the regions still to open, the activations of
\* entity_ui still to return, and the return of ui.
Variant ==
    2 * (Len(PreOrder(ParentlessFrom(1), 0)) - Cardinality(EntityRegions))
    + Len(stack)
    + (IF pc = "ui" THEN 1 ELSE 0)

====
